---- MODULE Spec2Model ----
(***************************************************************************)
(* Submission workflow engine of the SaaS Directory Agent:                 *)
(*   backend/app/services/workflow_manager.py   (WorkflowManager)          *)
(*   backend/app/services/browser_automation.py (BrowserAutomation)        *)
(*   backend/app/services/browser_use_service.py (BrowserUseService)       *)
(*   backend/app/services/ai_form_reader.py     (AIFormReader)             *)
(*   backend/app/routes/submissions.py          (update_submission)        *)
(*                                                                         *)
(* One bulk_submit call is a set of asyncio tasks, one per position of     *)
(* directory_ids; each action below is the code one task runs between two  *)
(* suspension points (or between two commits).  The retry sweep and the    *)
(* clock are added in SpecRetry.                                           *)
(***************************************************************************)
EXTENDS Integers, Sequences, FiniteSets, TLC

\* ------------------------------------------------------------------ bounds

\* Largest length of directory_ids in one bulk_submit call.
MaxBulk == 3
\* Largest configured value of CONCURRENT_SUBMISSIONS.
MaxCeiling == 2
\* The clock stops here (seconds).
MaxTime == 910

\* ------------------------------------------------------- program constants

\* models.py: Submission.max_retries = Column(Integer, default=3)
DefaultMaxRetries == 3
\* config.py: RETRY_DELAY (seconds)
RETRY_DELAY == 300

\* A nullable column or attribute holding None.
NULL == "null"
NoTime == 0 - 1

\* The rows of the test database: one product, three directories.  Id 0 has
\* no SaasProduct row and no Directory row.
ProductIds == {1}
DirIds == {1, 2, 3}
RequestIds == {0} \cup DirIds
RequestProducts == {0} \cup ProductIds

VARIABLES
    settings,        \* the injected Settings object (constant during a run)
    directories,     \* Directory rows, by id
    submissions,     \* Submission rows; the id is the index
    saas_product_id, \* argument of the running bulk_submit call
    directory_ids,   \* argument of the running bulk_submit call
    task,            \* one submit_with_semaphore task per position of directory_ids
    semaphore,       \* asyncio.Semaphore._value of the running call
    call,            \* "running" | "returned"
    results,         \* the list bulk_submit returns (submission ids)
    now,             \* wall clock, seconds
    sweep,           \* retry_failed_submissions: position and the list "failed"
    scheduler,       \* WorkflowManager.is_running and its AsyncIOScheduler
    mapper,          \* one call of AIFormReader.map_saas_data_to_fields
    page,            \* one result check of BrowserAutomation.fill_and_submit_form
    requests,        \* the route calls in progress, each with its own WorkflowManager
    sessions,        \* the database Sessions of concurrent requests (identity maps)
    form,            \* one fill_and_submit_form call: its arguments, locals and page operations
    parser,          \* one _parse_ai_response call and the mapping that follows it
    login            \* one login step of _submit_with_playwright and what it did on the login page

vars == <<settings, directories, submissions, saas_product_id, directory_ids,
          task, semaphore, call, results, now, sweep, scheduler, mapper, page,
          requests, sessions, form, parser, login>>

\* What the workflow actions leave alone.
Aux == <<scheduler, mapper, page, requests, sessions, form, parser, login>>

\* ------------------------------------------------------------- data shapes

\* The product the call submits (SaasProduct row -> _saas_product_to_dict).
SaasData ==
    [name |-> "Acme", website_url |-> "https://acme.test",
     contact_email |-> "hi@acme.test", description |-> "Acme builds things",
     short_description |-> NULL, tagline |-> NULL, category |-> NULL,
     logo_url |-> NULL, pricing_model |-> NULL,
     social_links |-> [kind |-> "None", twitter |-> NULL, linkedin |-> NULL]]

\* Directory.detected_form_structure is None until a detection is cached.
NoStructure == [kind |-> "None", fields |-> <<>>]
\* What the form detector can hand back.
FormEmpty == [kind |-> "dict", fields |-> <<>>]
FormName == [kind |-> "dict",
             fields |-> <<[field_name |-> "company_name", selector |-> "#name"]>>]
DetectorOutputs == {FormEmpty, FormName}

\* A cache check that never finds anything.
NeverTruthy(fs) == FALSE

\* Python truthiness of a form-structure value: None is falsy, a dict with
\* keys (it always has "fields") is truthy.
Truthy(fs) == fs.kind = "dict"

\* Directory columns and their defaults.
NewDirectory(needs_login, urlfirst) ==
    [requires_login |-> needs_login, requires_url_first |-> urlfirst,
     detected_form_structure |-> NoStructure, last_form_detection |-> NoTime,
     total_submissions |-> 0, successful_submissions |-> 0]

\* The Directory rows: 1 is a plain form, 2 asks for a login, 3 wants the
\* website URL first.
DirectoryRows ==
    [d \in DirIds |-> NewDirectory(d = 2, d = 3)]

\* What the page behind Directory.submission_url offers to the url-first
\* step: here every site has both the URL field and the continue button.
InitialPages ==
    [d \in DirIds |-> [url_field |-> TRUE, continue_button |-> TRUE]]

\* Submission(...) as submit_to_directory constructs it, with the column defaults.
NewSubmission(did) ==
    [directory_id |-> did, status |-> "PENDING",
     retry_count |-> 0, max_retries |-> DefaultMaxRetries, last_retry_at |-> NoTime,
     error_log |-> <<>>, response_message |-> NULL,
     listing_url |-> NULL, submitted_at |-> NoTime]

\* BrowserAutomation.__init__: nothing is open yet.
NoSession == [playwright |-> FALSE, browser |-> FALSE, context |-> FALSE]
NoResult == [success |-> FALSE, message |-> NULL, listing_url |-> NULL]

\* The locals of one submit_with_semaphore task.  browser names the
\* BrowserAutomation object bound by `as browser` (0: none yet).  calls (the
\* collaborator operations the attempt invoked, in order), used (the browser
\* objects those operations ran on), opened and incs (what the attempt added
\* to its Directory's counters) are history.
NewTask(did) ==
    [pc |-> "waiting", directory_id |-> did, sub |-> 0, ret |-> "pending",
     exc |-> "none", session |-> NoSession, opened |-> FALSE,
     browser |-> 0, used |-> {},
     login_success |-> "unset",
     form_structure |-> NoStructure, field_mapping |-> <<>>,
     result |-> NoResult, calls |-> <<>>,
     incs |-> [total |-> 0, successful |-> 0]]

Range(q) == {q[k] : k \in 1 .. Len(q)}

Tasks == 1 .. Len(directory_ids)
Terminal == {"SUBMITTED", "FAILED"}

\* WorkflowManager.__init__: is_running is False and the AsyncIOScheduler is
\* neither started nor holds a job.  calls lists the start_scheduler and
\* stop_scheduler calls made so far.
NewScheduler == [is_running |-> FALSE, running |-> FALSE, jobs |-> 0,
                 calls |-> <<>>]

\* No map_saas_data_to_fields call and no result check is under way.
NoMapper == [pc |-> "idle", saas_data |-> SaasData, fields |-> <<>>,
             field_mapping |-> <<>>]
NoPage == [pc |-> "idle", page_text |-> {}, result |-> NoResult]

\* Largest number of route calls in progress at the same time.
MaxRequests == 2

\* No route call is in progress.
NoRequest == [kind |-> "none", semaphore |-> 0, waiting |-> 0, active |-> 0]
NoRequests == [r \in 1 .. MaxRequests |-> NoRequest]

\* Number of attempts one database Session carries out, one after another.
MaxAttempts == 2

\* The requests that run side by side, each with its own Session from
\* SessionLocal().
SessionIds == {1, 2}

\* A Session whose identity map holds no loaded Directory row.
NoLoaded == [total_submissions |-> 0, successful_submissions |-> 0]
NewSession == [pc |-> "expired", loaded |-> NoLoaded, attempts |-> 0]
NoSessions == [s \in SessionIds |-> NewSession]

\* Largest Directory.step_count.
MaxSteps == 3

\* fill_and_submit_form, lines 221-226: the result it starts from.
NewFillResult ==
    [success |-> FALSE, message |-> "", listing_url |-> NULL,
     screenshot_path |-> NULL]

\* The selectors of the field_mapping argument, in the order of its items.
FormSelectors == <<"#name", "#url", "#email">>

\* No fill_and_submit_form call is in progress.  attempted and failed are the
\* selectors _fill_field was called with, and those it could not fill, in the
\* latest round.
NoForm ==
    [pc |-> "closed", is_multi_step |-> FALSE, step_count |-> 1,
     submit_button_selector |-> NULL, step |-> 0, ops |-> <<>>,
     attempted |-> <<>>, failed |-> {},
     page_text |-> {}, result |-> NewFillResult]

\* Largest number of tokens in an AI response.
MaxTokens == 4

\* What _parse_ai_response returns from its except branches (lines 284-288,
\* 291-295), without the note.
ParseFallback == [fields |-> <<>>, submit_button_selector |-> NULL]

\* No _parse_ai_response call is in progress.
NoParser ==
    [pc |-> "idle", response |-> <<>>, form_structure |-> ParseFallback,
     field_mapping |-> <<>>]

\* No login step is in progress.
NoLogin ==
    [pc |-> "idle", requires_login |-> FALSE, login_url |-> NULL,
     login_username |-> NULL, login_password |-> NULL,
     login_success |-> "unset", performed |-> FALSE]

AuxIdle ==
    /\ scheduler = NewScheduler
    /\ mapper = NoMapper
    /\ page = NoPage
    /\ requests = NoRequests
    /\ sessions = NoSessions
    /\ form = NoForm
    /\ parser = NoParser
    /\ login = NoLogin


\* ----------------------------------------------------------- field mapper

\* What `if not selector` and `if value` take for empty: None and "".
Falsy == {NULL, ""}

\* AIFormReader.map_saas_data_to_fields, the if/elif chain over field_name.
CategoryValue(saas_data, field_name) ==
    CASE field_name = "company_name" -> saas_data.name
      [] field_name = "website_url" -> saas_data.website_url
      [] field_name = "contact_email" -> saas_data.contact_email
      [] field_name = "description" -> saas_data.description
      [] field_name = "short_description" ->
            IF saas_data.short_description \notin Falsy
            THEN saas_data.short_description ELSE saas_data.tagline
      [] field_name = "category" -> saas_data.category
      [] field_name = "logo" -> saas_data.logo_url
      [] field_name = "twitter_url" ->
            IF saas_data.social_links.kind = "dict"
            THEN saas_data.social_links.twitter ELSE NULL
      [] field_name = "linkedin_url" ->
            IF saas_data.social_links.kind = "dict"
            THEN saas_data.social_links.linkedin ELSE NULL
      [] field_name = "pricing_model" -> saas_data.pricing_model
      [] OTHER -> NULL

RECURSIVE MapFromKeepsEmpty(_, _, _)
\* A mapper that also keeps the fields it has no value for.
MapFromKeepsEmpty(saas_data, fields, acc) ==
    IF fields = <<>> THEN acc
    ELSE LET f == Head(fields)
             value == CategoryValue(saas_data, f.field_name)
             next == IF f.selector \in Falsy THEN acc
                     ELSE [s \in (DOMAIN acc) \cup {f.selector} |->
                              IF s = f.selector THEN value ELSE acc[s]]
         IN MapFromKeepsEmpty(saas_data, Tail(fields), next)

RECURSIVE MapFrom(_, _, _)
\* The loop of map_saas_data_to_fields: a later field overwrites the entry
\* of an earlier one with the same selector.
MapFrom(saas_data, fields, acc) ==
    IF fields = <<>> THEN acc
    ELSE LET f == Head(fields)
             value == CategoryValue(saas_data, f.field_name)
             next == IF f.selector \in Falsy \/ value \in Falsy THEN acc
                     ELSE [s \in (DOMAIN acc) \cup {f.selector} |->
                              IF s = f.selector THEN value ELSE acc[s]]
         IN MapFrom(saas_data, Tail(fields), next)

map_saas_data_to_fields(saas_data, detected_fields) ==
    MapFrom(saas_data, detected_fields, <<>>)

\* ------------------------------------------------------- browser session

\* One browser object that every attempt gets.
SharedBrowser(i) == 1

\* `BrowserAutomation()` at line 145 constructs a new object in each attempt;
\* it is named after the attempt that constructed it.
NewBrowser(i) == i

\* BrowserAutomation.initialize, when nothing raises.
initialize(session) == [playwright |-> TRUE, browser |-> TRUE, context |-> TRUE]

\* BrowserAutomation.close: browser.close() (which closes its contexts) and
\* playwright.stop().
close(session) == [playwright |-> FALSE, browser |-> FALSE, context |-> FALSE]

\* BrowserAutomation.__aexit__ is declared as __aexit__(self): it does not take
\* the (exc_type, exc, tb) the async-with protocol passes.
AExitTakesExcInfo == FALSE

\* What fill_and_submit_form can return: a page classified as success, with
\* the post-submit URL, or a failure (validation errors, timeout, error).
PostSubmitUrl == "https://dir.test/thanks"
FillSuccess == [success |-> TRUE, message |-> "Form submitted successfully",
                listing_url |-> PostSubmitUrl]
FillFailure == [success |-> FALSE,
                message |-> "Submission failed - validation errors",
                listing_url |-> NULL]
FillResults == {FillSuccess, FillFailure}

\* ------------------------------------------------ one attempt, step by step
\* A frame st = [t, subs, dirs] is the state one task reads and writes: its
\* locals, the Submission rows and the Directory rows.  The operators below
\* are the synchronous stretches of code between two suspension points.

Frame(i) == [t |-> task[i], subs |-> submissions, dirs |-> directories]

TheDir(st) == st.dirs[st.t.directory_id]

\* The operations that are methods of the browser object.
BrowserOps == {"login", "url_first", "detect", "fill", "close"}

Called(st, op) ==
    [st EXCEPT !.t.calls = Append(@, op),
               !.t.used = IF op \in BrowserOps THEN @ \cup {st.t.browser} ELSE @]

\* A lookup that only misses the directory.
NotFoundDirectoryOnly(pid, did) == did \notin DirIds

\* submit_to_directory, `if not saas_product or not directory`.
NotFound(pid, did) == pid \notin ProductIds \/ did \notin DirIds

\* submit_with_semaphore, `except Exception: return None`.
ReturnsNone(st, e) ==
    [st EXCEPT !.t.pc = "done", !.t.ret = "None", !.t.exc = e]

\* `return submission` reaching submit_with_semaphore.
ReturnsSubmission(st) ==
    [st EXCEPT !.t.pc = "done", !.t.ret = "Submission"]

\* submit_to_directory, lines 41-50: the PENDING row is added and committed.
CreateSubmission(st) ==
    [st EXCEPT !.subs = Append(@, NewSubmission(st.t.directory_id)),
               !.t.sub = Len(st.subs) + 1]

\* An outer except that only re-raises.
OuterRaiseOnly(st, e) == ReturnsNone(st, e)

\* submit_to_directory, lines 62-67: mark the row FAILED, commit, re-raise.
OuterExcept(st, e) ==
    ReturnsNone([st EXCEPT !.subs[st.t.sub].status = "FAILED",
                           !.subs[st.t.sub].response_message = "Error: " \o e],
                e)

\* _submit_with_playwright, lines 237-251: the except branch.
ExceptBranch(st, e) ==
    ReturnsSubmission(
        [st EXCEPT !.subs[st.t.sub].status = "FAILED",
                   !.subs[st.t.sub].response_message = "Error: " \o e,
                   !.subs[st.t.sub].error_log =
                        Append(@, [timestamp |-> now, error |-> e]),
                   !.t.exc = e])

\* Leaving `async with BrowserAutomation() as browser` with the exception e
\* the body raised ("none" when the body completed).  Python calls
\* __aexit__(exc_type, exc, tb); a method that does not take them raises
\* TypeError before its body (close) runs.
LeaveWith(st, e) ==
    IF AExitTakesExcInfo
    THEN LET c == Called([st EXCEPT !.t.session = close(@)], "close")
         IN IF e = "none" THEN ReturnsSubmission(c) ELSE ExceptBranch(c, e)
    ELSE ExceptBranch(st, "__aexit__() takes 1 positional argument but 4 were given")

\* Lines 185-194: mapping, and the raise on an empty mapping.
MapFields(st) ==
    LET fm == map_saas_data_to_fields(SaasData, st.t.form_structure.fields)
        m == Called(st, "map")
    IN IF DOMAIN fm = {}
       THEN LeaveWith(m, "No fields could be mapped")
       ELSE [m EXCEPT !.t.field_mapping = fm, !.t.pc = "fill"]

\* A cache write that lands on every Directory row.
CacheItEverywhere(st, fs) ==
    Called([st EXCEPT !.t.form_structure = fs,
                      !.dirs = [d \in DOMAIN st.dirs |->
                                   [st.dirs[d] EXCEPT
                                       !.detected_form_structure = fs,
                                       !.last_form_detection = now]]],
           "cache")

\* Lines 180-183: the detected structure is cached on the Directory and
\* committed.
CacheIt(st, fs) ==
    Called([st EXCEPT !.t.form_structure = fs,
                      !.dirs[st.t.directory_id].detected_form_structure = fs,
                      !.dirs[st.t.directory_id].last_form_detection = now],
           "cache")

\* A step 2 that maps first and caches afterwards.
MapThenCache(st, fs) ==
    CacheIt(MapFields([st EXCEPT !.t.form_structure = fs]), fs)

\* Lines 176-194: after the detection, the cache write, then the mapping.
CacheThenMap(st, fs) == MapFields(CacheIt(st, fs))

\* Lines 171-173: reuse the cached structure, or go and detect.
CheckCache(st) ==
    IF Truthy(TheDir(st).detected_form_structure)
    THEN MapFields([st EXCEPT !.t.form_structure = TheDir(st).detected_form_structure])
    ELSE [st EXCEPT !.t.pc = "detect"]

\* Lines 159-169: BrowserAutomation defines no submit_url_first_step, so the
\* attribute lookup raises AttributeError.
UrlFirstStep(st) ==
    IF TheDir(st).requires_url_first
    THEN LeaveWith(Called(st, "url_first"),
                   "'BrowserAutomation' object has no attribute 'submit_url_first_step'")
    ELSE CheckCache(st)

\* Lines 146-148.
EnterBody(st) ==
    IF TheDir(st).requires_login THEN [st EXCEPT !.t.pc = "login"]
    ELSE UrlFirstStep(st)

\* A failed login that is let through.
LoginNeverFatal(login_success) == FALSE

\* Line 154: `if not login_success: raise Exception("Login failed")`.
LoginIsFatal(login_success) == ~login_success

\* Lines 205-233: the result is written to the Submission and the Directory.
UpdateStatus(st, r) ==
    LET d == st.t.directory_id
        s == st.t.sub
    IN IF r.success
       THEN [st EXCEPT !.subs[s].status = "SUBMITTED",
                       !.subs[s].submitted_at = now,
                       !.subs[s].listing_url = r.listing_url,
                       !.subs[s].response_message = r.message,
                       !.dirs[d].total_submissions = @ + 1,
                       !.dirs[d].successful_submissions = @ + 1,
                       !.t.incs = [total |-> @.total + 1, successful |-> @.successful + 1],
                       !.t.result = r]
       ELSE [st EXCEPT !.subs[s].status = "FAILED",
                       !.subs[s].response_message = r.message,
                       !.dirs[d].total_submissions = @ + 1,
                       !.t.incs = [@ EXCEPT !.total = @ + 1],
                       !.t.result = r]

\* _submit_with_browser_use, lines 114-135.
AgentUpdate(st, success) ==
    LET d == st.t.directory_id
        s == st.t.sub
    IN ReturnsSubmission(
       IF success
       THEN [st EXCEPT !.subs[s].status = "SUBMITTED",
                       !.subs[s].submitted_at = now,
                       !.subs[s].response_message = "Form submitted successfully by AI agent",
                       !.dirs[d].total_submissions = @ + 1,
                       !.dirs[d].successful_submissions = @ + 1,
                       !.t.incs = [total |-> @.total + 1, successful |-> @.successful + 1]]
       ELSE [st EXCEPT !.subs[s].status = "FAILED",
                       !.subs[s].response_message = "AI submission failed",
                       !.dirs[d].total_submissions = @ + 1,
                       !.t.incs = [@ EXCEPT !.total = @ + 1]])

\* ------------------------------------------------------------- semaphore

\* A semaphore that never blocks.
AcquireAlways(value) == TRUE

\* A release that gives no permit back.
ReleasedNever(value) == value

\* asyncio.Semaphore.acquire returns at once while _value > 0.
CanAcquire(value) == value > 0
Acquired(value) == value - 1
Released(value) == value + 1

\* What a step of task i leaves behind; the permit goes back when the task
\* leaves `async with semaphore`.
Commit(i, st, sem) ==
    /\ task' = [task EXCEPT ![i] = st.t]
    /\ submissions' = st.subs
    /\ directories' = st.dirs
    /\ semaphore' = IF st.t.pc = "done" THEN Released(sem) ELSE sem


\* ------------------------------------------------------ bulk_submit tasks
\* asyncio.gather starts the tasks in argument order and Semaphore wakes its
\* waiters first-in first-out, so task i enters the semaphore after every
\* task before it.

Others == <<Aux, settings, saas_product_id, directory_ids, call, results, now, sweep>>

\* `async with semaphore`, then submit_to_directory up to its first await:
\* the lookups, the PENDING row and the choice of the execution mode
\* (BrowserUseService() may raise in its constructor).
Start(i) ==
    /\ call = "running"
    /\ task[i].pc = "waiting"
    /\ \A j \in Tasks : j < i => task[j].pc # "waiting"
    /\ CanAcquire(semaphore)
    /\ LET st == Frame(i)
           sem == Acquired(semaphore)
       IN IF NotFound(saas_product_id, directory_ids[i])
          THEN Commit(i, ReturnsNone(st, "SaaS product or directory not found"), sem)
          ELSE LET c == CreateSubmission(st)
               IN IF settings.USE_BROWSER_USE
                  THEN \E constructed \in BOOLEAN :
                         Commit(i, IF constructed THEN [c EXCEPT !.t.pc = "agent"]
                                   ELSE OuterExcept(c, "BROWSER_USE_API_KEY is not set"),
                                sem)
                  ELSE Commit(i, [c EXCEPT !.t.pc = "initialize"], sem)
    /\ UNCHANGED Others

\* _submit_with_browser_use: the agent run returns a result or raises.
AgentRun(i) ==
    /\ task[i].pc = "agent"
    /\ \E outcome \in {"success", "failure", "raise"} :
         LET st == Called(Frame(i), "agent")
         IN Commit(i, IF outcome = "raise"
                      THEN OuterExcept(st, "agent task failed")
                      ELSE AgentUpdate(st, outcome = "success"),
                   semaphore)
    /\ UNCHANGED Others

\* `async with BrowserAutomation() as browser`: __aenter__ awaits initialize,
\* which raises RuntimeError when the browser cannot be launched.
Initialize(i) ==
    /\ task[i].pc = "initialize"
    /\ \E launched \in BOOLEAN :
         LET st == Frame(i)
         IN Commit(i, IF launched
                      THEN EnterBody([st EXCEPT !.t.session = initialize(@),
                                                !.t.opened = TRUE,
                                                !.t.browser = NewBrowser(i)])
                      ELSE ExceptBranch(st, "Browser initialization failed"),
                   semaphore)
    /\ UNCHANGED Others

\* Step 1: browser.login_if_required returns True or False.
Login(i) ==
    /\ task[i].pc = "login"
    /\ \E login_success \in BOOLEAN :
         LET st == Called([Frame(i) EXCEPT !.t.login_success =
                                IF login_success THEN "True" ELSE "False"], "login")
         IN Commit(i, IF LoginIsFatal(login_success)
                      THEN LeaveWith(st, "Login failed")
                      ELSE UrlFirstStep(st),
                   semaphore)
    /\ UNCHANGED Others

\* Step 2 without a cached structure: _analyze_directory_form raises (the
\* navigation or the analysis failed) or returns a structure, which is
\* cached on the Directory and committed before the mapping.
Detect(i) ==
    /\ task[i].pc = "detect"
    /\ LET st == Called(Frame(i), "detect")
       IN \/ Commit(i, LeaveWith(st, "Timeout navigating to form"), semaphore)
          \/ \E fs \in DetectorOutputs :
               Commit(i, CacheThenMap(st, fs), semaphore)
    /\ UNCHANGED Others

\* Steps 4 and 5, then the end of the `async with` block.
FillAndSubmit(i) ==
    /\ task[i].pc = "fill"
    /\ \E r \in FillResults :
         Commit(i, LeaveWith(UpdateStatus(Called(Frame(i), "fill"), r), "none"),
                semaphore)
    /\ UNCHANGED Others

RECURSIVE Collect(_)
\* `[s for s in results if isinstance(s, Submission)]`, in argument order.
Collect(k) ==
    IF k = 0 THEN <<>>
    ELSE IF task[k].ret = "Submission" THEN Append(Collect(k - 1), task[k].sub)
         ELSE Collect(k - 1)

\* gather returns when every task has returned.
BulkReturn ==
    /\ call = "running"
    /\ \A i \in Tasks : task[i].pc = "done"
    /\ call' = "returned"
    /\ results' = Collect(Len(directory_ids))
    /\ UNCHANGED <<Aux, settings, directories, submissions, saas_product_id,
                   directory_ids, task, semaphore, now, sweep>>

\* ------------------------------------------------------------------ Spec

BulkInputs == UNION {[1 .. n -> RequestIds] : n \in 1 .. MaxBulk}
\* selected (the rows the query returned, with their retry_count then),
\* requeued, attempted, raised and reruns are history of the last sweep.
NoSweep == [pc |-> "idle", failed |-> <<>>, selected |-> <<>>, requeued |-> {},
            attempted |-> {}, raised |-> {}, reruns |-> 0]

\* A bulk_submit call has just been made on a fresh database.
Init ==
    /\ settings \in [USE_BROWSER_USE : BOOLEAN,
                     CONCURRENT_SUBMISSIONS : 1 .. MaxCeiling]
    /\ directories = DirectoryRows
    /\ submissions = <<>>
    /\ saas_product_id \in RequestProducts
    /\ directory_ids \in BulkInputs
    /\ task = [i \in 1 .. Len(directory_ids) |-> NewTask(directory_ids[i])]
    /\ semaphore = settings.CONCURRENT_SUBMISSIONS
    /\ call = "running"
    /\ results = <<>>
    /\ now = 0
    /\ sweep = NoSweep
    /\ AuxIdle

Next ==
    \/ \E i \in Tasks : Start(i)
    \/ \E i \in Tasks : AgentRun(i)
    \/ \E i \in Tasks : Initialize(i)
    \/ \E i \in Tasks : Login(i)
    \/ \E i \in Tasks : Detect(i)
    \/ \E i \in Tasks : FillAndSubmit(i)
    \/ BulkReturn

Spec == Init /\ [][Next]_vars


\* Largest length of directory_ids in the calls followed to their end.
MaxLiveBulk == 2

\* A bulk_submit call of at most MaxLiveBulk directory ids.
InitLive ==
    /\ Init
    /\ Len(directory_ids) <= MaxLiveBulk

\* The event loop runs a task that can take a step, and every await of an
\* attempt comes back.
SpecLive == InitLive /\ [][Next]_vars /\ WF_vars(Next)

\* ----------------------------------------------------------- retry sweeps

\* Seconds the clock can advance in one step: half the retry delay (twice is
\* the delay exactly) and just over the delay.
TickSteps == {150, 301}

\* The filter without its retry budget, and with the budget off by one.
EligibleNoBudget(s, t) ==
    /\ s.status = "FAILED"
    /\ \/ s.last_retry_at = NoTime
       \/ s.last_retry_at < t - RETRY_DELAY

EligibleOffByOne(s, t) ==
    /\ s.status = "FAILED"
    /\ s.retry_count <= s.max_retries
    /\ \/ s.last_retry_at = NoTime
       \/ s.last_retry_at < t - RETRY_DELAY

\* The filter with a record exactly one delay old let through.
EligibleAtDelay(s, t) ==
    /\ s.status = "FAILED"
    /\ s.retry_count < s.max_retries
    /\ \/ s.last_retry_at = NoTime
       \/ s.last_retry_at <= t - RETRY_DELAY

\* retry_failed_submissions, lines 278-290: the filter of the query.
Eligible(s, t) ==
    /\ s.status = "FAILED"
    /\ s.retry_count < s.max_retries
    /\ \/ s.last_retry_at = NoTime
       \/ s.last_retry_at < t - RETRY_DELAY

RECURSIVE SelectFailed(_, _, _)
\* .all(): the rows the filter keeps, by id.
SelectFailed(subs, t, k) ==
    IF k = 0 THEN <<>>
    ELSE IF Eligible(subs[k], t) THEN Append(SelectFailed(subs, t, k - 1), k)
         ELSE SelectFailed(subs, t, k - 1)

\* Line 299 calls submit_to_directory(saas_product_id, directory_id): the
\* method takes (saas_product_id, directory_id, user_id), so the call raises
\* TypeError before any of its body runs.
RetryCallBinds == FALSE

\* A loop that an exception of one round ends.
AbortsLoop(failed) == <<>>

\* Lines 293-301: the try/except is inside the loop body, so after a round
\* that raised the loop goes on with the rest of the list.
CaughtInLoop(failed) == Tail(failed)

\* retry_failed_submissions is called: the query.
SweepStart ==
    /\ sweep.pc = "idle"
    /\ LET failed == SelectFailed(submissions, now, Len(submissions))
       IN sweep' = [pc |-> "running", failed |-> failed,
                    selected |-> [s \in Range(failed) |-> submissions[s].retry_count],
                    requeued |-> {}, attempted |-> {}, raised |-> {},
                    reruns |-> 0]
    /\ UNCHANGED <<Aux, settings, directories, submissions, saas_product_id,
                   directory_ids, task, semaphore, call, results, now>>

\* One round of `for submission in failed`: the row is re-queued and
\* committed, then the re-run is called; what it raises is caught and logged.
SweepRetry ==
    /\ sweep.pc = "running"
    /\ sweep.failed # <<>>
    /\ LET s == Head(sweep.failed)
       IN /\ submissions' = [submissions EXCEPT
                               ![s].retry_count = @ + 1,
                               ![s].last_retry_at = now,
                               ![s].status = "PENDING"]
          /\ sweep' = [sweep EXCEPT
                         !.failed = IF RetryCallBinds THEN Tail(@) ELSE CaughtInLoop(@),
                         !.requeued = @ \cup {s},
                         !.attempted = @ \cup {s},
                         !.raised = IF RetryCallBinds THEN @ ELSE @ \cup {s},
                         !.reruns = IF RetryCallBinds THEN @ + 1 ELSE @]
    /\ UNCHANGED <<Aux, settings, directories, saas_product_id, directory_ids, task,
                   semaphore, call, results, now>>

\* The loop is over: retry_failed_submissions returns.
SweepEnd ==
    /\ sweep.pc = "running"
    /\ sweep.failed = <<>>
    /\ sweep' = [sweep EXCEPT !.pc = "idle"]
    /\ UNCHANGED <<Aux, settings, directories, submissions, saas_product_id,
                   directory_ids, task, semaphore, call, results, now>>

\* routes/submissions.py, update_submission: the owner sets the status of a
\* row by hand (here: marks it failed).
UpdateStatuses == {"FAILED"}
UpdateSubmission(s, status) ==
    /\ submissions[s].status # status
    /\ submissions' = [submissions EXCEPT ![s].status = status]
    /\ UNCHANGED <<Aux, settings, directories, saas_product_id, directory_ids, task,
                   semaphore, call, results, now, sweep>>

\* Time passes.
Tick(delta) ==
    /\ now + delta <= MaxTime
    /\ now' = now + delta
    /\ UNCHANGED <<Aux, settings, directories, submissions, saas_product_id,
                   directory_ids, task, semaphore, call, results, sweep>>

\* The frame a finished attempt on directory did leaves, starting from the
\* rows of st: a scripted attempt whose browser did not launch ...
LaunchFailure(st, did) ==
    ExceptBranch(CreateSubmission([st EXCEPT !.t = NewTask(did)]),
                 "Browser initialization failed")

\* ... and an agent attempt that reported success or failure.
AgentAttempt(st, did, success) ==
    AgentUpdate(Called(CreateSubmission([st EXCEPT !.t = NewTask(did)]), "agent"),
                success)

FreshFrame == [t |-> NewTask(0), subs |-> <<>>, dirs |-> DirectoryRows]

\* Two histories of a returned bulk_submit call over directories 1 and 2:
\* scripted mode with both launches failing; agent mode with a success on 1
\* and a failure on 2.
History(agent) ==
    LET a == IF agent THEN AgentAttempt(FreshFrame, 1, TRUE)
             ELSE LaunchFailure(FreshFrame, 1)
        b == IF agent THEN AgentAttempt(a, 2, FALSE)
             ELSE LaunchFailure(a, 2)
    IN [task |-> <<a.t, b.t>>, subs |-> b.subs, dirs |-> b.dirs]

\* The bulk_submit call over directories 1 and 2 has returned (one of the two
\* histories above), and the retry job is scheduled.
InitRetry ==
    /\ now = 0
    /\ settings \in [USE_BROWSER_USE : BOOLEAN,
                     CONCURRENT_SUBMISSIONS : {MaxCeiling}]
    /\ directories = History(settings.USE_BROWSER_USE).dirs
    /\ submissions = History(settings.USE_BROWSER_USE).subs
    /\ saas_product_id \in ProductIds
    /\ directory_ids = <<1, 2>>
    /\ task = History(settings.USE_BROWSER_USE).task
    /\ semaphore = settings.CONCURRENT_SUBMISSIONS
    /\ call = "returned"
    /\ results = <<1, 2>>
    /\ sweep = NoSweep
    /\ AuxIdle

NextRetry ==
    \/ SweepStart
    \/ SweepRetry
    \/ SweepEnd
    \/ \E s \in 1 .. Len(submissions), status \in UpdateStatuses :
          UpdateSubmission(s, status)
    \/ \E delta \in TickSteps : Tick(delta)

SpecRetry == InitRetry /\ [][NextRetry]_vars

\* ------------------------------------------------- the query of one sweep
\* retry_failed_submissions run on a table of rows in every state the columns
\* can be in: any status (update_submission can set each of them), and a
\* retry_count that is 0 with last_retry_at None, or positive with a
\* last_retry_at inside, exactly at, or beyond the retry delay.

\* Number of rows of the table.
MaxRows == 2

StatusValues == {"PENDING", "SUBMITTED", "APPROVED", "REJECTED", "FAILED"}

RetryAges == {10, RETRY_DELAY, RETRY_DELAY + 1}

SelectRows(t) ==
    {[NewSubmission(1) EXCEPT !.status = st] : st \in StatusValues}
    \cup {[NewSubmission(1) EXCEPT !.status = st, !.retry_count = rc,
                                   !.last_retry_at = t - age] :
             st \in StatusValues, rc \in {2, DefaultMaxRetries}, age \in RetryAges}

InitSelect ==
    /\ now \in {1000}
    /\ submissions \in [1 .. MaxRows -> SelectRows(now)]
    /\ settings \in [USE_BROWSER_USE : {FALSE}, CONCURRENT_SUBMISSIONS : {1}]
    /\ directories = DirectoryRows
    /\ saas_product_id \in ProductIds
    /\ directory_ids = <<>>
    /\ task = <<>>
    /\ semaphore = settings.CONCURRENT_SUBMISSIONS
    /\ call = "returned"
    /\ results = <<>>
    /\ sweep = NoSweep
    /\ AuxIdle

NextSelect ==
    \/ SweepStart
    \/ SweepRetry
    \/ SweepEnd

SpecSelect == InitSelect /\ [][NextSelect]_vars

\* ------------------------------------------------ the field mapper alone
\* map_saas_data_to_fields called on every product and detected field list
\* of the sets below.

\* Longest detected field list.
MaxFields == 2

\* The ten field_name values the mapper knows.
Categories ==
    {"company_name", "website_url", "contact_email", "description",
     "short_description", "category", "logo", "twitter_url", "linkedin_url",
     "pricing_model"}

\* Detected fields: three known names, one the mapper does not know; an
\* empty selector and two selectors.
MapperFields ==
    [field_name : {"company_name", "short_description", "twitter_url", "nickname"},
     selector : {"", "#a", "#b"}]

\* Products with and without a name, a short description, a tagline and
\* social links.
MapperProducts ==
    {[SaasData EXCEPT !.name = n, !.short_description = sd, !.tagline = tg,
                      !.social_links = sl] :
        n \in {"Acme", ""}, sd \in {NULL, "Short"}, tg \in {NULL, "Tag"},
        sl \in {SaasData.social_links,
                 [kind |-> "dict", twitter |-> "https://x.test/acme", linkedin |-> NULL]}}

MapperFrame ==
    <<settings, directories, submissions, saas_product_id, directory_ids,
      task, semaphore, call, results, now, sweep, scheduler, page, requests, sessions,
      form, parser, login>>

InitMapper ==
    /\ mapper \in [pc : {"called"}, saas_data : MapperProducts,
                    fields : UNION {[1 .. n -> MapperFields] : n \in 0 .. MaxFields},
                    field_mapping : {<<>>}]
    /\ settings \in [USE_BROWSER_USE : {FALSE}, CONCURRENT_SUBMISSIONS : {1}]
    /\ directories = DirectoryRows
    /\ submissions = <<>>
    /\ saas_product_id \in ProductIds
    /\ directory_ids = <<>>
    /\ task = <<>>
    /\ semaphore = settings.CONCURRENT_SUBMISSIONS
    /\ call = "returned"
    /\ results = <<>>
    /\ now = 0
    /\ sweep = NoSweep
    /\ scheduler = NewScheduler
    /\ page = NoPage
    /\ requests = NoRequests
    /\ sessions = NoSessions
    /\ form = NoForm
    /\ parser = NoParser
    /\ login = NoLogin

\* The call returns its field_mapping.
MapperReturns ==
    /\ mapper.pc = "called"
    /\ mapper' = [mapper EXCEPT
                     !.pc = "returned",
                     !.field_mapping = map_saas_data_to_fields(mapper.saas_data,
                                                               mapper.fields)]
    /\ UNCHANGED MapperFrame

NextMapper == MapperReturns

SpecMapper == InitMapper /\ [][NextMapper]_vars

\* ------------------------------------------------ the result check alone
\* fill_and_submit_form after the submit click, on every page text made of
\* the phrases below.

success_indicators ==
    {"success", "thank you", "submitted", "received", "confirmation",
     "pending review", "approved"}

error_indicators ==
    {"error", "invalid", "failed", "required field", "please correct", "try again"}

\* Phrases a result page can show.
PagePhrases ==
    {"Thank You!", "Unsuccessful", "Your listing is pending review",
     "ERROR: Invalid email", "Please try again", "Submission Failed", "Welcome"}

\* The indicators that are substrings of phrase.lower().
Occurs(phrase) ==
    CASE phrase = "Thank You!" -> {"thank you"}
      [] phrase = "Unsuccessful" -> {"success"}
      [] phrase = "Your listing is pending review" -> {"pending review"}
      [] phrase = "ERROR: Invalid email" -> {"error", "invalid"}
      [] phrase = "Please try again" -> {"try again"}
      [] phrase = "Submission Failed" -> {"failed"}
      [] OTHER -> {}

\* `any(indicator in page_text for indicator in indicators)`.
AnyIn(indicators, page_text) ==
    \E indicator \in indicators : \E phrase \in page_text : indicator \in Occurs(phrase)

\* A check that looks for the error indicators first.
ClassifyErrorsFirst(page_text, current_url) ==
    IF AnyIn(error_indicators, page_text)
    THEN [success |-> FALSE, message |-> "Submission failed - validation errors",
          listing_url |-> NULL]
    ELSE [success |-> TRUE, message |-> "Form submitted",
          listing_url |-> current_url]

\* Lines 279-312: is_success, then has_error, then the default.
Classify(page_text, current_url) ==
    IF AnyIn(success_indicators, page_text)
    THEN [success |-> TRUE, message |-> "Form submitted successfully",
          listing_url |-> current_url]
    ELSE IF AnyIn(error_indicators, page_text)
         THEN [success |-> FALSE,
               message |-> "Submission failed - validation errors",
               listing_url |-> NULL]
         ELSE [success |-> TRUE, message |-> "Form submitted",
               listing_url |-> current_url]

PageFrame ==
    <<settings, directories, submissions, saas_product_id, directory_ids,
      task, semaphore, call, results, now, sweep, scheduler, mapper, requests, sessions,
      form, parser, login>>

InitClassify ==
    /\ page \in [pc : {"submitted"}, page_text : SUBSET PagePhrases,
                  result : {NoResult}]
    /\ settings \in [USE_BROWSER_USE : {FALSE}, CONCURRENT_SUBMISSIONS : {1}]
    /\ directories = DirectoryRows
    /\ submissions = <<>>
    /\ saas_product_id \in ProductIds
    /\ directory_ids = <<>>
    /\ task = <<>>
    /\ semaphore = settings.CONCURRENT_SUBMISSIONS
    /\ call = "returned"
    /\ results = <<>>
    /\ now = 0
    /\ sweep = NoSweep
    /\ scheduler = NewScheduler
    /\ mapper = NoMapper
    /\ requests = NoRequests
    /\ sessions = NoSessions
    /\ form = NoForm
    /\ parser = NoParser
    /\ login = NoLogin

\* The page content is read and checked.
CheckResult ==
    /\ page.pc = "submitted"
    /\ page' = [page EXCEPT !.pc = "checked",
                            !.result = Classify(page.page_text, PostSubmitUrl)]
    /\ UNCHANGED PageFrame

\* page.content() times out or raises: lines 314-321.
CheckRaises ==
    /\ page.pc = "submitted"
    /\ \E message \in {"Timeout submitting to form", "Error: page closed"} :
         page' = [page EXCEPT !.pc = "raised",
                              !.result = [NoResult EXCEPT !.message = message]]
    /\ UNCHANGED PageFrame

NextClassify ==
    \/ CheckResult
    \/ CheckRaises

SpecClassify == InitClassify /\ [][NextClassify]_vars

\* -------------------------------------------- route calls side by side
\* Each route call (POST /, POST /bulk, POST /{id}/retry) builds its own
\* WorkflowManager; bulk_submit creates its semaphore inside the call, and
\* the two single-submission routes call submit_to_directory directly.

RequestFrame ==
    <<settings, directories, submissions, saas_product_id, directory_ids,
      task, semaphore, call, results, now, sweep, scheduler, mapper, page,
      sessions, form, parser, login>>

\* POST /bulk: bulk_submit starts over n directory ids, with a new
\* asyncio.Semaphore(CONCURRENT_SUBMISSIONS).
BulkRoute(r, n) ==
    /\ requests[r].kind = "none"
    /\ requests' = [requests EXCEPT ![r] =
                       [kind |-> "bulk",
                        semaphore |-> settings.CONCURRENT_SUBMISSIONS,
                        waiting |-> n, active |-> 0]]
    /\ UNCHANGED RequestFrame

\* POST / and POST /{id}/retry: submit_to_directory is awaited as it is.
SingleRoute(r) ==
    /\ requests[r].kind = "none"
    /\ requests' = [requests EXCEPT ![r] =
                       [kind |-> "single", semaphore |-> 0,
                        waiting |-> 0, active |-> 1]]
    /\ UNCHANGED RequestFrame

\* A task of a bulk call enters `async with semaphore` and starts its attempt.
EnterAttempt(r) ==
    /\ requests[r].kind = "bulk"
    /\ requests[r].waiting > 0
    /\ CanAcquire(requests[r].semaphore)
    /\ requests' = [requests EXCEPT ![r].semaphore = Acquired(@),
                                    ![r].waiting = @ - 1,
                                    ![r].active = @ + 1]
    /\ UNCHANGED RequestFrame

\* An attempt ends; a task of a bulk call gives its permit back.
LeaveAttempt(r) ==
    /\ requests[r].active > 0
    /\ requests' = [requests EXCEPT
                       ![r].semaphore = IF requests[r].kind = "bulk"
                                        THEN Released(@) ELSE @,
                       ![r].active = @ - 1]
    /\ UNCHANGED RequestFrame

\* The route call returns its response.
Respond(r) ==
    /\ requests[r].kind # "none"
    /\ requests[r].waiting = 0
    /\ requests[r].active = 0
    /\ requests' = [requests EXCEPT ![r] = NoRequest]
    /\ UNCHANGED RequestFrame

InitRequests ==
    /\ settings \in [USE_BROWSER_USE : {FALSE},
                      CONCURRENT_SUBMISSIONS : 1 .. MaxCeiling]
    /\ directories = DirectoryRows
    /\ submissions = <<>>
    /\ saas_product_id \in ProductIds
    /\ directory_ids = <<>>
    /\ task = <<>>
    /\ semaphore = settings.CONCURRENT_SUBMISSIONS
    /\ call = "returned"
    /\ results = <<>>
    /\ now = 0
    /\ sweep = NoSweep
    /\ AuxIdle

NextRequests ==
    \/ \E r \in 1 .. MaxRequests, n \in 1 .. MaxBulk : BulkRoute(r, n)
    \/ \E r \in 1 .. MaxRequests : SingleRoute(r)
    \/ \E r \in 1 .. MaxRequests : EnterAttempt(r)
    \/ \E r \in 1 .. MaxRequests : LeaveAttempt(r)
    \/ \E r \in 1 .. MaxRequests : Respond(r)

SpecRequests == InitRequests /\ [][NextRequests]_vars

\* ---------------------------------------------------- the login step alone
\* Step 1 of _submit_with_playwright with BrowserAutomation.login_if_required,
\* for every Directory with and without its login columns.

LoginFrame ==
    <<settings, directories, submissions, saas_product_id, directory_ids,
      task, semaphore, call, results, now, sweep, scheduler, mapper, page,
      requests, sessions, form, parser>>

\* What the login page can be: a page with the login form, a page where none
\* of the selectors matches, a page that does not load.
LoginPages == {"login_form", "no_login_form", "timeout"}

\* Line 82: `if not login_url or not username or not password`.
NoCredentials(l) ==
    \/ l.login_url \in Falsy
    \/ l.login_username \in Falsy
    \/ l.login_password \in Falsy

\* BrowserAutomation.login_if_required, lines 75-154.  performed says that the
\* credentials were typed in and the login button was clicked.
login_if_required(l, login_page) ==
    IF NoCredentials(l) THEN [login_success |-> TRUE, performed |-> FALSE]
    ELSE IF login_page = "timeout" THEN [login_success |-> FALSE, performed |-> FALSE]
    ELSE [login_success |-> TRUE, performed |-> login_page = "login_form"]

\* workflow_manager.py lines 146-152.
LoginStep ==
    /\ login.pc = "step1"
    /\ IF login.requires_login
       THEN \E login_page \in LoginPages :
              LET r == login_if_required(login, login_page)
              IN login' = [login EXCEPT !.pc = "returned",
                                        !.login_success = r.login_success,
                                        !.performed = r.performed]
       ELSE login' = [login EXCEPT !.pc = "proceeded"]
    /\ UNCHANGED LoginFrame

\* Lines 154-157: raise "Login failed", or go on to the next steps.
AfterLogin ==
    /\ login.pc = "returned"
    /\ login' = [login EXCEPT !.pc = IF LoginIsFatal(login.login_success)
                                     THEN "failed" ELSE "proceeded"]
    /\ UNCHANGED LoginFrame

InitLogin ==
    /\ login \in [pc : {"step1"}, requires_login : BOOLEAN,
                   login_url : {NULL, "", "https://dir.test/login"},
                   login_username : {NULL, "", "acme"},
                   login_password : {NULL, "", "secret"},
                   login_success : {"unset"}, performed : {FALSE}]
    /\ settings \in [USE_BROWSER_USE : {FALSE}, CONCURRENT_SUBMISSIONS : {1}]
    /\ directories = DirectoryRows
    /\ submissions = <<>>
    /\ saas_product_id \in ProductIds
    /\ directory_ids = <<>>
    /\ task = <<>>
    /\ semaphore = settings.CONCURRENT_SUBMISSIONS
    /\ call = "returned"
    /\ results = <<>>
    /\ now = 0
    /\ sweep = NoSweep
    /\ scheduler = NewScheduler
    /\ mapper = NoMapper
    /\ page = NoPage
    /\ requests = NoRequests
    /\ sessions = NoSessions
    /\ form = NoForm
    /\ parser = NoParser

NextLogin ==
    \/ LoginStep
    \/ AfterLogin

SpecLogin == InitLogin /\ [][NextLogin]_vars

\* ------------------------------------------- _parse_ai_response alone
\* An AI response is a sequence of tokens: the two code fences (fence_json
\* opens a json block, fence is three backticks alone), the braces of the
\* outer JSON object, prose, and four member lists:
\*   fields_ok     "fields": [{"field_name": "company_name", "selector": "#name"}],
\*                 "submit_button_selector": "#go"
\*   fields_mixed  "fields": [{"field_name": "company_name", "selector": "#name"},
\*                 {"label": "x"}]
\*   no_fields     "additional_notes": "none"
\*   fields_null   "fields": null

Fences == {"fence_json", "fence"}
MemberTokens == {"fields_ok", "fields_mixed", "no_fields", "fields_null"}
AITokens == Fences \cup {"{", "}", "prose"} \cup MemberTokens

\* The tokens whose text holds a "{", and those whose text holds a "}".
OpenTokens == {"{", "fields_ok", "fields_mixed"}
CloseTokens == {"}", "fields_ok", "fields_mixed"}

\* A key the JSON object does not have.
NoKey == "<absent>"

\* str.find and str.rfind over tokens; 0 when there is none.
IndexOf(seq, tokens) ==
    IF \E k \in 1 .. Len(seq) : seq[k] \in tokens
    THEN CHOOSE k \in 1 .. Len(seq) :
            /\ seq[k] \in tokens
            /\ \A j \in 1 .. k - 1 : seq[j] \notin tokens
    ELSE 0

LastIndexOf(seq, tokens) ==
    IF \E k \in 1 .. Len(seq) : seq[k] \in tokens
    THEN CHOOSE k \in 1 .. Len(seq) :
            /\ seq[k] \in tokens
            /\ \A j \in k + 1 .. Len(seq) : seq[j] \notin tokens
    ELSE 0

\* `json_str.split(fence)[1].split(three backticks)[0]`: what follows the first fence,
\* up to the next fence of either kind.
Fenced(seq, fence) ==
    LET after == SubSeq(seq, IndexOf(seq, {fence}) + 1, Len(seq))
        stop == IndexOf(after, Fences)
    IN IF stop = 0 THEN after ELSE SubSeq(after, 1, stop - 1)

\* Lines 240-243.
FromCodeBlock(seq) ==
    IF "fence_json" \in Range(seq) THEN Fenced(seq, "fence_json")
    ELSE IF "fence" \in Range(seq) THEN Fenced(seq, "fence")
    ELSE seq

\* Lines 246-251: from the first "{" to the last "}".  cut says that the
\* slice starts or ends inside a member list.
ObjectBoundaries(seq) ==
    IF seq # <<>> /\ Head(seq) = "{" THEN [tokens |-> seq, cut |-> FALSE]
    ELSE LET start == IndexOf(seq, OpenTokens)
             end == LastIndexOf(seq, CloseTokens)
         IN IF start # 0 /\ end >= start
            THEN [tokens |-> SubSeq(seq, start, end),
                  cut |-> seq[start] # "{" \/ seq[end] # "}"]
            ELSE [tokens |-> seq, cut |-> FALSE]

\* The dict `{ member }` parses to.
Members(member) ==
    CASE member = "fields_ok" ->
            [kind |-> "dict", fields_kind |-> "list",
             fields |-> <<[field_name |-> "company_name", selector |-> "#name"]>>,
             submit_button_selector |-> "#go"]
      [] member = "fields_mixed" ->
            [kind |-> "dict", fields_kind |-> "list",
             fields |-> <<[field_name |-> "company_name", selector |-> "#name"],
                          [field_name |-> NoKey, selector |-> NoKey]>>,
             submit_button_selector |-> NoKey]
      [] member = "fields_null" ->
            [kind |-> "dict", fields_kind |-> "null", fields |-> <<>>,
             submit_button_selector |-> NoKey]
      [] OTHER ->
            [kind |-> "dict", fields_kind |-> "absent", fields |-> <<>>,
             submit_button_selector |-> NoKey]

JSONDecodeError ==
    [kind |-> "JSONDecodeError", fields_kind |-> "absent", fields |-> <<>>,
     submit_button_selector |-> NoKey]

\* json.loads (line 257).  A slice cut out of fields_ok alone is the object
\* {"field_name": ..., "selector": ...}; every other cut slice, and every
\* text that is not one object, does not parse.
Loads(json_str) ==
    IF json_str.cut
    THEN IF json_str.tokens = <<"fields_ok">> THEN Members("no_fields")
         ELSE JSONDecodeError
    ELSE IF json_str.tokens = <<"{", "}">> THEN Members("no_fields")
    ELSE IF /\ Len(json_str.tokens) = 3
            /\ json_str.tokens[1] = "{"
            /\ json_str.tokens[2] \in MemberTokens
            /\ json_str.tokens[3] = "}"
         THEN Members(json_str.tokens[2])
         ELSE JSONDecodeError

\* Line 271: both keys are there.
HasKeys(field) == field.field_name # NoKey /\ field.selector # NoKey

\* Except branches that let the exception out.
ParseFailureRaises(e) == [raised |-> TRUE, value |-> ParseFallback]

\* Lines 281-295: both except branches return the empty structure.
ParseFailure(e) == [raised |-> FALSE, value |-> ParseFallback]

\* AIFormReader._parse_ai_response.  Iterating over `"fields": null` raises
\* TypeError (line 270).
_parse_ai_response(response) ==
    LET data == Loads(ObjectBoundaries(FromCodeBlock(response)))
    IN IF data.kind = "JSONDecodeError" THEN ParseFailure("JSONDecodeError")
       ELSE IF data.fields_kind = "null" THEN ParseFailure("TypeError")
       ELSE [raised |-> FALSE,
             value |-> [fields |-> SelectSeq(data.fields, HasKeys),
                        submit_button_selector |->
                            IF data.submit_button_selector = NoKey THEN NULL
                            ELSE data.submit_button_selector]]

ParserFrame ==
    <<settings, directories, submissions, saas_product_id, directory_ids,
      task, semaphore, call, results, now, sweep, scheduler, mapper, page,
      requests, sessions, form, login>>

\* _analyze_with_ollama, line 186, as _analyze_directory_form awaits it.
ParseResponse ==
    /\ parser.pc = "response"
    /\ LET r == _parse_ai_response(parser.response)
       IN parser' = IF r.raised THEN [parser EXCEPT !.pc = "raised"]
                    ELSE [parser EXCEPT !.pc = "parsed",
                                        !.form_structure = r.value]
    /\ UNCHANGED ParserFrame

\* workflow_manager.py lines 185-188: the structure goes to the mapper.
MapDetected ==
    /\ parser.pc = "parsed"
    /\ parser' = [parser EXCEPT
                     !.pc = "mapped",
                     !.field_mapping =
                         map_saas_data_to_fields(SaasData,
                                                 parser.form_structure.fields)]
    /\ UNCHANGED ParserFrame

InitParse ==
    /\ parser \in [pc : {"response"},
                    response : UNION {[1 .. n -> AITokens] : n \in 0 .. MaxTokens},
                    form_structure : {ParseFallback},
                    field_mapping : {<<>>}]
    /\ settings \in [USE_BROWSER_USE : {FALSE}, CONCURRENT_SUBMISSIONS : {1}]
    /\ directories = DirectoryRows
    /\ submissions = <<>>
    /\ saas_product_id \in ProductIds
    /\ directory_ids = <<>>
    /\ task = <<>>
    /\ semaphore = settings.CONCURRENT_SUBMISSIONS
    /\ call = "returned"
    /\ results = <<>>
    /\ now = 0
    /\ sweep = NoSweep
    /\ scheduler = NewScheduler
    /\ mapper = NoMapper
    /\ page = NoPage
    /\ requests = NoRequests
    /\ sessions = NoSessions
    /\ form = NoForm
    /\ login = NoLogin

NextParse ==
    \/ ParseResponse
    \/ MapDetected

SpecParse == InitParse /\ [][NextParse]_vars

\* ------------------------------------------- fill_and_submit_form alone
\* One call of BrowserAutomation.fill_and_submit_form, page operation by
\* page operation.  ops lists the fill rounds, clicks and screenshots in the
\* order the page saw them.

FormFrame ==
    <<settings, directories, submissions, saas_product_id, directory_ids,
      task, semaphore, call, results, now, sweep, scheduler, mapper, page,
      requests, sessions, parser, login>>

\* A loop that asks for the next button on every step.
NeedsNextAlways(step, step_count) == step <= step_count

\* Line 244: `if step < step_count`.
NeedsNext(step, step_count) == step < step_count

\* Lines 314-321: the exception becomes the message of a failure result.
FillRaises(message) ==
    form' = [form EXCEPT !.pc = "done", !.result.message = message]

\* Lines 229-230: page.goto and the wait for the network.  With
\* is_multi_step and a step_count below 1, `range(1, step_count + 1)` is
\* empty and the call goes straight to the result check.
FillGoto ==
    /\ form.pc = "goto"
    /\ \E loaded \in BOOLEAN :
         IF loaded
         THEN form' = [form EXCEPT
                          !.step = 1,
                          !.pc = IF form.is_multi_step /\ form.step_count < 1
                                 THEN "check" ELSE "fill"]
         ELSE FillRaises("Timeout submitting to form")
    /\ UNCHANGED FormFrame

\* A _fill_field that lets the exception out.
FillFieldRaises(selector, missing) ==
    [raised |-> selector \in missing, filled |-> selector \notin missing]

\* _fill_field, lines 325-344: waiting for a selector the page does not show
\* (or filling it) raises inside the try, and `except Exception: pass`
\* ends the call.
FillField(selector, missing) ==
    [raised |-> FALSE, filled |-> selector \notin missing]

RECURSIVE FillFields(_, _, _)
\* `for selector, value in field_mapping.items()`: the selectors in order,
\* up to the first call that raises.
FillFields(selectors, missing, acc) ==
    IF selectors = <<>> THEN [raised |-> FALSE, attempted |-> acc]
    ELSE LET r == FillField(Head(selectors), missing)
         IN IF r.raised
            THEN [raised |-> TRUE, attempted |-> Append(acc, Head(selectors))]
            ELSE FillFields(Tail(selectors), missing, Append(acc, Head(selectors)))

\* Lines 238-241 and 256-259: one round over field_mapping, on a page that
\* does not show the selectors in missing.
FillRound ==
    /\ form.pc = "fill"
    /\ \E missing \in SUBSET Range(FormSelectors) :
         LET r == FillFields(FormSelectors, missing, <<>>)
         IN IF r.raised
            THEN form' = [form EXCEPT !.pc = "done",
                                     !.attempted = r.attempted,
                                     !.failed = missing,
                                     !.result.message = "Error: field not found"]
            ELSE form' = [form EXCEPT
                            !.ops = Append(@, "fill"),
                            !.attempted = r.attempted,
                            !.failed = missing,
                            !.pc = IF form.is_multi_step
                                   THEN IF NeedsNext(form.step, form.step_count)
                                        THEN "next" ELSE "submit"
                                   ELSE "shoot"]
    /\ UNCHANGED FormFrame

\* Lines 246-247 and _click_next_button: the first selector on the page is
\* clicked, or "Next button not found" is raised.
ClickNext ==
    /\ form.pc = "next"
    /\ \E found \in BOOLEAN :
         IF found
         THEN form' = [form EXCEPT
                          !.ops = Append(@, "next"),
                          !.step = @ + 1,
                          !.pc = IF form.step + 1 > form.step_count
                                 THEN "check" ELSE "fill"]
         ELSE FillRaises("Error: Next button not found")
    /\ UNCHANGED FormFrame

\* Lines 261-268, single-step branch only.
Screenshot ==
    /\ form.pc = "shoot"
    /\ form' = [form EXCEPT !.ops = Append(@, "screenshot"),
                            !.result.screenshot_path = "pre_submit.png",
                            !.pc = "submit"]
    /\ UNCHANGED FormFrame

\* Lines 250-253 and 271-274: _click_submit_button waits for the given
\* selector, _find_and_click_submit tries its own list.
ClickSubmit ==
    /\ form.pc = "submit"
    /\ \E found \in BOOLEAN :
         IF found
         THEN form' = [form EXCEPT !.ops = Append(@, "submit"), !.pc = "check"]
         ELSE FillRaises(IF form.submit_button_selector # NULL
                         THEN "Timeout submitting to form"
                         ELSE "Error: Submit button not found")
    /\ UNCHANGED FormFrame

\* Lines 277-312: the page after the submit click is read and classified.
FillCheck ==
    /\ form.pc = "check"
    /\ \E page_text \in SUBSET PagePhrases :
         LET c == Classify(page_text, PostSubmitUrl)
         IN form' = [form EXCEPT !.pc = "done",
                                 !.page_text = page_text,
                                 !.result.success = c.success,
                                 !.result.message = c.message,
                                 !.result.listing_url = c.listing_url]
    /\ UNCHANGED FormFrame

InitFill ==
    /\ form \in [pc : {"goto"}, is_multi_step : BOOLEAN,
                  step_count : 0 .. MaxSteps,
                  submit_button_selector : {NULL, "#submit"},
                  step : {0}, ops : {<<>>}, attempted : {<<>>}, failed : {{}},
                  page_text : {{}},
                  result : {NewFillResult}]
    /\ settings \in [USE_BROWSER_USE : {FALSE}, CONCURRENT_SUBMISSIONS : {1}]
    /\ directories = DirectoryRows
    /\ submissions = <<>>
    /\ saas_product_id \in ProductIds
    /\ directory_ids = <<>>
    /\ task = <<>>
    /\ semaphore = settings.CONCURRENT_SUBMISSIONS
    /\ call = "returned"
    /\ results = <<>>
    /\ now = 0
    /\ sweep = NoSweep
    /\ scheduler = NewScheduler
    /\ mapper = NoMapper
    /\ page = NoPage
    /\ requests = NoRequests
    /\ sessions = NoSessions
    /\ parser = NoParser
    /\ login = NoLogin

NextFill ==
    \/ FillGoto
    \/ FillRound
    \/ ClickNext
    \/ Screenshot
    \/ ClickSubmit
    \/ FillCheck

SpecFill == InitFill /\ [][NextFill]_vars

\* ------------------------------------- counters written by several Sessions
\* Every request gets its own Session (get_db).  A commit expires the loaded
\* rows, the next attribute access reloads the Directory row, and the ORM
\* writes `directory.total_submissions += 1` as the loaded value plus one:
\* UPDATE directories SET total_submissions = <value>.

CounterFrame ==
    <<settings, submissions, saas_product_id, directory_ids, task, semaphore,
      call, results, now, sweep, scheduler, mapper, page, requests, form,
      parser, login>>

\* The Directory row is read after the commit that precedes the long await
\* (agent mode: line 90 after line 50; scripted mode: line 201 after 194).
LoadDirectory(s) ==
    /\ sessions[s].pc = "expired"
    /\ sessions[s].attempts < MaxAttempts
    /\ sessions' = [sessions EXCEPT
                       ![s].pc = "awaiting",
                       ![s].loaded =
                           [total_submissions |-> directories[1].total_submissions,
                            successful_submissions |->
                                directories[1].successful_submissions]]
    /\ UNCHANGED <<directories, CounterFrame>>

\* The await is over: lines 114-134 and 205-232.  Only the columns that were
\* assigned are part of the UPDATE.
CommitOutcome(s, success) ==
    /\ sessions[s].pc = "awaiting"
    /\ directories' =
          [directories EXCEPT
              ![1].total_submissions = sessions[s].loaded.total_submissions + 1,
              ![1].successful_submissions =
                  IF success THEN sessions[s].loaded.successful_submissions + 1
                  ELSE @]
    /\ sessions' = [sessions EXCEPT ![s].pc = "expired",
                                    ![s].loaded = NoLoaded,
                                    ![s].attempts = @ + 1]
    /\ UNCHANGED CounterFrame

\* The attempt ends in an except branch (lines 62-67, 237-251): the commit
\* writes the Submission only.
CommitException(s) ==
    /\ sessions[s].pc = "awaiting"
    /\ sessions' = [sessions EXCEPT ![s].pc = "expired",
                                    ![s].loaded = NoLoaded,
                                    ![s].attempts = @ + 1]
    /\ UNCHANGED <<directories, CounterFrame>>

InitCounters ==
    /\ settings \in [USE_BROWSER_USE : BOOLEAN,
                      CONCURRENT_SUBMISSIONS : {1}]
    /\ directories = DirectoryRows
    /\ submissions = <<>>
    /\ saas_product_id \in ProductIds
    /\ directory_ids = <<>>
    /\ task = <<>>
    /\ semaphore = settings.CONCURRENT_SUBMISSIONS
    /\ call = "returned"
    /\ results = <<>>
    /\ now = 0
    /\ sweep = NoSweep
    /\ AuxIdle

NextCounters ==
    \/ \E s \in SessionIds : LoadDirectory(s)
    \/ \E s \in SessionIds, success \in BOOLEAN : CommitOutcome(s, success)
    \/ \E s \in SessionIds : CommitException(s)

SpecCounters == InitCounters /\ [][NextCounters]_vars

\* ------------------------------------------------------- the scheduler

\* Largest number of start_scheduler and stop_scheduler calls.
MaxCalls == 3

\* A start_scheduler without its guard.
NeverRunning(is_running) == FALSE

\* Line 334: `if self.is_running: return`.
AlreadyRunning(is_running) == is_running

\* start_scheduler: the guard, then is_running, add_job and scheduler.start().
start_scheduler(sch) ==
    IF AlreadyRunning(sch.is_running) THEN sch
    ELSE [sch EXCEPT !.is_running = TRUE, !.jobs = @ + 1, !.running = TRUE]

\* stop_scheduler: shutdown() only when the scheduler runs (it stops the
\* scheduler and its in-memory job store drops the jobs), then is_running.
stop_scheduler(sch) ==
    [(IF sch.running THEN [sch EXCEPT !.running = FALSE, !.jobs = 0] ELSE sch)
        EXCEPT !.is_running = FALSE]

SchedulerFrame ==
    <<settings, directories, submissions, saas_product_id, directory_ids,
      task, semaphore, call, results, now, sweep, mapper, page, requests, sessions,
      form, parser, login>>

StartScheduler ==
    /\ Len(scheduler.calls) < MaxCalls
    /\ scheduler' = [start_scheduler(scheduler) EXCEPT !.calls = Append(@, "start")]
    /\ UNCHANGED SchedulerFrame

StopScheduler ==
    /\ Len(scheduler.calls) < MaxCalls
    /\ scheduler' = [stop_scheduler(scheduler) EXCEPT !.calls = Append(@, "stop")]
    /\ UNCHANGED SchedulerFrame

\* The interval job "retry_failed" fires while the scheduler runs.
JobFires ==
    /\ scheduler.running
    /\ scheduler.jobs > 0
    /\ SweepStart

NextScheduler ==
    \/ StartScheduler
    \/ StopScheduler
    \/ JobFires
    \/ SweepRetry
    \/ SweepEnd

SpecScheduler == InitRetry /\ [][NextScheduler]_vars

\* InitRetry is a state of Spec: the database and the tasks of History(agent)
\* are what a returned call leaves.
HistoryReached(agent) ==
    /\ call = "returned"
    /\ settings.USE_BROWSER_USE = agent
    /\ settings.CONCURRENT_SUBMISSIONS = MaxCeiling
    /\ directory_ids = <<1, 2>>
    /\ results = <<1, 2>>
    /\ task = History(agent).task
    /\ submissions = History(agent).subs
    /\ directories = History(agent).dirs
    /\ semaphore = settings.CONCURRENT_SUBMISSIONS


\* ================================================================ claims

\* Attempts that have entered the semaphore and not left it.
Active == {i \in Tasks : task[i].pc \notin {"waiting", "done"}}

\* Attempts that created a Submission row.
WithRow == {i \in Tasks : task[i].sub # 0}

\* C1: during a bulk_submit call the number of attempts that have started
\* and not finished never exceeds CONCURRENT_SUBMISSIONS.
C1_ConcurrencyBound ==
    Cardinality(Active) <= settings.CONCURRENT_SUBMISSIONS

\* More directories than permits, every permit taken, an attempt waiting.
C1_Witness ==
    /\ Len(directory_ids) > settings.CONCURRENT_SUBMISSIONS
    /\ Cardinality(Active) = settings.CONCURRENT_SUBMISSIONS
    /\ \E i \in Tasks : task[i].pc = "waiting"

\* K is the one position of directory_ids whose attempt raises before a row
\* exists (its directory is not found).
OnlyMissing(K) ==
    /\ saas_product_id \in ProductIds
    /\ directory_ids[K] \notin DirIds
    /\ \A j \in Tasks \ {K} : directory_ids[j] \in DirIds

\* C2: when the attempt for directory K alone raises before producing a
\* record, bulk_submit returns exactly N-1 records and each of the other N-1
\* attempts ran to SUBMITTED or FAILED.
C2_BulkIsolation ==
    \A K \in Tasks :
        (call = "returned" /\ OnlyMissing(K)) =>
            /\ Len(results) = Len(directory_ids) - 1
            /\ \A j \in Tasks \ {K} :
                  /\ task[j].sub # 0
                  /\ submissions[task[j].sub].status \in Terminal

\* C3: bulk_submit returns exactly the records its attempts produced: every
\* attempt that created a row (ending SUBMITTED or FAILED) contributes it,
\* and only the attempts that created none contribute nothing.
C3_ReturnsProduced ==
    call = "returned" =>
        /\ Range(results) = {task[i].sub : i \in WithRow}
        /\ \A i \in WithRow : submissions[task[i].sub].status \in Terminal

\* The rows of directory d that ended in a terminal state, and those that
\* ended SUBMITTED.
Ended(d) ==
    {k \in 1 .. Len(submissions) :
        submissions[k].directory_id = d /\ submissions[k].status \in Terminal}
EndedSubmitted(d) ==
    {k \in Ended(d) : submissions[k].status = "SUBMITTED"}

\* C4: every attempt that ends in a terminal state adds exactly 1 to its
\* Directory's total_submissions, and 1 to successful_submissions exactly
\* when it ends SUBMITTED (the counters start at 0, so once every attempt
\* has returned they count the rows).
C4_CountersOncePerOutcome ==
    call = "returned" =>
        \A d \in DirIds :
            /\ directories[d].total_submissions = Cardinality(Ended(d))
            /\ directories[d].successful_submissions = Cardinality(EndedSubmitted(d))

\* C5: in scripted mode, a fill+submit classified as success leaves the
\* Submission SUBMITTED, with submitted_at set and listing_url the
\* post-submit URL, when the attempt has returned.
C5_SuccessStaysSubmitted ==
    \A i \in Tasks :
        (task[i].pc = "done" /\ task[i].result.success) =>
            /\ submissions[task[i].sub].status = "SUBMITTED"
            /\ submissions[task[i].sub].submitted_at # NoTime
            /\ submissions[task[i].sub].listing_url = PostSubmitUrl

\* C6: a scripted attempt that opened a browser session has released it when
\* it returns: close ran, and browser, context and driver are closed.
C6_SessionReleased ==
    \A i \in Tasks :
        (task[i].pc = "done" /\ task[i].opened) =>
            /\ "close" \in Range(task[i].calls)
            /\ task[i].session = NoSession

\* C7: when the directory requires a login and the login returns false, the
\* attempt goes straight to FAILED: no url-first, detection, mapping or
\* fill/submit is invoked, error_log gains exactly one entry, and the attempt
\* adds nothing to successful_submissions.
C7_LoginFailureIsFatal ==
    \A i \in Tasks :
        task[i].login_success = "False" =>
            /\ task[i].pc = "done"
            /\ task[i].calls = <<"login">>
            /\ submissions[task[i].sub].status = "FAILED"
            /\ Len(submissions[task[i].sub].error_log) = 1
            /\ task[i].incs.successful = 0

\* A login was required, ran, and returned false.
C7_Witness ==
    \E i \in Tasks :
        /\ task[i].login_success = "False"
        /\ directories[task[i].directory_id].requires_login
        /\ task[i].pc = "done"

\* C8: when a sweep has re-queued its eligible records, the state machine
\* was re-run for each of them and each has reached SUBMITTED or FAILED
\* again by the time the sweep returns.
C8_RequeuedAreRerun ==
    (sweep.pc = "idle") =>
        /\ sweep.reruns = Cardinality(sweep.requeued)
        /\ \A s \in sweep.requeued : submissions[s].status \in Terminal

\* C9: a FAILED submission whose retry_count equals max_retries is never in
\* the list a sweep selects, whatever its last_retry_at.
C9_NeverSelectedAtMax ==
    [][(sweep.pc = "idle" /\ sweep'.pc = "running") =>
          \A s \in 1 .. Len(submissions) :
              (submissions[s].status = "FAILED"
                 /\ submissions[s].retry_count = submissions[s].max_retries)
              => s \notin Range(sweep'.failed)]_vars

\* A sweep has just run its query while a FAILED row at its retry budget had
\* a last_retry_at older than the retry delay, and left it out.
C9_Witness ==
    /\ sweep.pc = "running"
    /\ sweep.requeued = {}
    /\ \E s \in 1 .. Len(submissions) :
          /\ submissions[s].status = "FAILED"
          /\ submissions[s].retry_count = submissions[s].max_retries
          /\ submissions[s].last_retry_at < now - RETRY_DELAY
          /\ s \notin Range(sweep.failed)

\* C10: retry_count never exceeds max_retries, and a record whose
\* retry_count equals max_retries is not re-queued again.
C10_RetryCountBounded ==
    /\ [](\A s \in 1 .. Len(submissions) :
             submissions[s].retry_count <= submissions[s].max_retries)
    /\ [][\A s \in 1 .. Len(submissions) :
             submissions[s].retry_count = submissions[s].max_retries =>
                /\ submissions'[s].retry_count = submissions[s].retry_count
                /\ submissions'[s].last_retry_at = submissions[s].last_retry_at]_vars

\* A record has used its whole retry budget.
C10_Witness ==
    \E s \in 1 .. Len(submissions) :
        /\ submissions[s].retry_count = submissions[s].max_retries
        /\ submissions[s].status = "FAILED"
        /\ sweep.pc = "idle"
        /\ now > submissions[s].last_retry_at + RETRY_DELAY

\* C11: a sweep selects exactly the records with status FAILED, retry_count
\* below max_retries, and last_retry_at null or older than now - retry_delay;
\* with retry_count 2 of 3 and a delay of 300 s, a record retried 10 s ago is
\* left out and one retried 301 s ago is selected.
C11_SelectionIsExact ==
    [][(sweep.pc = "idle" /\ sweep'.pc = "running") =>
          /\ Range(sweep'.failed) =
                {s \in 1 .. Len(submissions) :
                    /\ submissions[s].status = "FAILED"
                    /\ submissions[s].retry_count < submissions[s].max_retries
                    /\ \/ submissions[s].last_retry_at = NoTime
                       \/ submissions[s].last_retry_at < now - RETRY_DELAY}
          /\ Len(sweep'.failed) = Cardinality(Range(sweep'.failed))
          /\ \A s \in 1 .. Len(submissions) :
                (/\ submissions[s].status = "FAILED"
                 /\ submissions[s].retry_count = 2
                 /\ submissions[s].max_retries = 3) =>
                    /\ submissions[s].last_retry_at = now - 10
                          => s \notin Range(sweep'.failed)
                    /\ submissions[s].last_retry_at = now - 301
                          => s \in Range(sweep'.failed)]_vars

\* The query has just run on a table holding a FAILED record retried twice
\* 10 s ago, which it left out, and one retried twice 301 s ago, which it
\* selected.
C11_Witness ==
    /\ sweep.pc = "running"
    /\ sweep.requeued = {}
    /\ \E a, b \in 1 .. Len(submissions) :
          /\ submissions[a].status = "FAILED"
          /\ submissions[a].retry_count = 2
          /\ submissions[a].last_retry_at = now - 10
          /\ a \notin Range(sweep.failed)
          /\ submissions[b].status = "FAILED"
          /\ submissions[b].retry_count = 2
          /\ submissions[b].last_retry_at = now - 301
          /\ b \in Range(sweep.failed)

\* C12: within one sweep every retry that raises is caught: each record that
\* was eligible when the sweep started has been processed when the sweep
\* returns (retry_count incremented, last_retry_at stamped, the re-run
\* called), and the sweep itself does not raise.
C12_SweepIsolatesFailures ==
    /\ sweep.pc \in {"idle", "running"}
    /\ sweep.pc = "idle" =>
          \A s \in DOMAIN sweep.selected :
              /\ s \in sweep.requeued
              /\ s \in sweep.attempted
              /\ submissions[s].retry_count = sweep.selected[s] + 1
              /\ submissions[s].last_retry_at # NoTime

\* A sweep over two eligible records has returned, and the retry of each of
\* them raised.
C12_Witness ==
    /\ sweep.pc = "idle"
    /\ Cardinality(DOMAIN sweep.selected) >= 2
    /\ sweep.raised = DOMAIN sweep.selected

\* What start_scheduler and stop_scheduler read and write.
SchedulerState(sch) == <<sch.is_running, sch.running, sch.jobs>>

\* C13: a start_scheduler call on a started scheduler changes nothing and
\* leaves one retry job registered and the scheduler running; a
\* stop_scheduler call on a scheduler that was never started changes nothing.
C13_StartStopIdempotent ==
    [][/\ (scheduler'.calls = Append(scheduler.calls, "start")
            /\ scheduler.is_running) =>
               /\ SchedulerState(scheduler') = SchedulerState(scheduler)
               /\ scheduler'.jobs = 1
               /\ scheduler'.running
       /\ (scheduler'.calls = Append(scheduler.calls, "stop")
            /\ "start" \notin Range(scheduler.calls)) =>
               /\ SchedulerState(scheduler') = SchedulerState(scheduler)
               /\ SchedulerState(scheduler') = SchedulerState(NewScheduler)]_vars

\* stop_scheduler was called on the unstarted scheduler, then start_scheduler
\* twice.
C13_Witness ==
    /\ scheduler.calls = <<"stop", "start", "start">>
    /\ scheduler.is_running
    /\ scheduler.running
    /\ scheduler.jobs = 1

\* Attempts that took their form structure from the Directory's cache.
CacheHits ==
    {i \in Tasks : "map" \in Range(task[i].calls)
                    /\ "detect" \notin Range(task[i].calls)}

\* C14: an attempt that reaches step 2 while its Directory holds a cached
\* form structure does not invoke the detector, leaves
\* detected_form_structure and last_form_detection as they are, and maps the
\* cached fields; runs that used the same cached structure computed the same
\* field mapping.
C14_CachedStructureIsReused ==
    /\ [][\A i \in Tasks :
            (/\ task[i].directory_id \in DirIds
             /\ task[i].pc \in {"initialize", "login"}
             /\ task'[i] # task[i]
             /\ directories[task[i].directory_id].detected_form_structure
                    # NoStructure) =>
                LET d == task[i].directory_id
                    cached == directories[d].detected_form_structure
                IN /\ task'[i].pc # "detect"
                   /\ "detect" \notin Range(task'[i].calls)
                   /\ directories'[d].detected_form_structure = cached
                   /\ directories'[d].last_form_detection =
                         directories[d].last_form_detection
                   /\ "map" \in Range(task'[i].calls) =>
                         /\ task'[i].form_structure = cached
                         /\ task'[i].pc = "fill" =>
                               task'[i].field_mapping =
                                 map_saas_data_to_fields(SaasData, cached.fields)]_vars
    /\ [](\A i, j \in CacheHits :
             task[i].form_structure = task[j].form_structure =>
                task[i].field_mapping = task[j].field_mapping)

\* Two attempts on the same directory both ran from its cached structure,
\* after the attempt that detected it, and mapped a field.
C14_Witness ==
    \E i, j \in CacheHits :
        /\ i # j
        /\ task[i].directory_id = task[j].directory_id
        /\ task[i].field_mapping # <<>>
        /\ task[j].field_mapping # <<>>
        /\ task[i].pc = "done"
        /\ task[j].pc = "done"

\* C15: detected_form_structure is populated only by a successful detection:
\* a detection that degrades to an empty field list is not cached, so no
\* attempt runs from a cached structure without fields.
C15_CacheOnlySuccessfulDetection ==
    /\ \A d \in DirIds :
          directories[d].detected_form_structure # NoStructure =>
              directories[d].detected_form_structure.fields # <<>>
    /\ \A i \in CacheHits : task[i].form_structure.fields # <<>>

\* Attempts whose mapping step found nothing to map.
EmptyMappings ==
    {i \in Tasks :
        /\ "map" \in Range(task[i].calls)
        /\ DOMAIN map_saas_data_to_fields(SaasData, task[i].form_structure.fields) = {}}

\* C16: an attempt whose form structure yields an empty field mapping ends
\* FAILED with the reason that no fields could be mapped, and never invokes
\* fill_and_submit_form.
C16_EmptyMappingFails ==
    \A i \in EmptyMappings :
        /\ task[i].pc = "done"
        /\ "fill" \notin Range(task[i].calls)
        /\ submissions[task[i].sub].status = "FAILED"
        /\ submissions[task[i].sub].response_message = "Error: No fields could be mapped"

\* C17: in the mapping map_saas_data_to_fields returns, every key is the
\* selector of a detected field whose field_name is one of the ten
\* categories, with the product's value for that category; a detected field
\* with a known category, a selector and a product value has its selector
\* mapped; the empty selector, and a selector whose fields all have an
\* unknown field_name or no product value, are absent.
C17_MappingFollowsDetection ==
    mapper.pc = "returned" =>
        LET m == mapper.field_mapping
            fs == mapper.fields
            Maps(j) == /\ fs[j].field_name \in Categories
                       /\ fs[j].selector \notin Falsy
                       /\ CategoryValue(mapper.saas_data, fs[j].field_name) \notin Falsy
        IN /\ \A k \in DOMAIN m :
                 \E j \in 1 .. Len(fs) :
                     /\ Maps(j)
                     /\ fs[j].selector = k
                     /\ m[k] = CategoryValue(mapper.saas_data, fs[j].field_name)
           /\ \A j \in 1 .. Len(fs) : Maps(j) => fs[j].selector \in DOMAIN m
           /\ DOMAIN m \cap Falsy = {}

\* The mapper returned a mapping with one selector from a list of two
\* fields, the other one being a field it had no product value for.
C17_Witness ==
    /\ mapper.pc = "returned"
    /\ Len(mapper.fields) = 2
    /\ Cardinality(DOMAIN mapper.field_mapping) = 1
    /\ \E j \in 1 .. 2 :
          /\ mapper.fields[j].field_name \in Categories
          /\ mapper.fields[j].selector \notin DOMAIN mapper.field_mapping
          /\ mapper.fields[j].selector # ""

\* C18: the result check answers success, with listing_url the post-submit
\* URL, when the page text contains a positive marker (also when it contains
\* a negative one as well); failure when it contains a negative marker and no
\* positive one; and success with listing_url set when it contains neither.
C18_ClassificationOrder ==
    page.pc = "checked" =>
        LET positive == \E phrase \in page.page_text :
                            Occurs(phrase) \cap success_indicators # {}
            negative == \E phrase \in page.page_text :
                            Occurs(phrase) \cap error_indicators # {}
        IN /\ positive =>
                 /\ page.result.success
                 /\ page.result.listing_url = PostSubmitUrl
           /\ (~positive /\ negative) =>
                 /\ ~page.result.success
                 /\ page.result.listing_url = NULL
           /\ (~positive /\ ~negative) =>
                 /\ page.result.success
                 /\ page.result.listing_url = PostSubmitUrl

\* A page showing both "Thank You!" and "ERROR: Invalid email" was checked
\* and classified as a success.
C18_Witness ==
    /\ page.pc = "checked"
    /\ {"Thank You!", "ERROR: Invalid email"} \subseteq page.page_text
    /\ page.result.success

\* The place of each operation of a scripted attempt in the order of
\* _submit_with_playwright.
PhaseOrder == <<"login", "url_first", "detect", "cache", "map", "fill", "close">>
PhaseRank(op) == CHOOSE k \in 1 .. Len(PhaseOrder) : PhaseOrder[k] = op

\* C19: in a scripted attempt the phases run in the order login, url-first,
\* detection, mapping, fill/submit, each at most once and one at a time; when
\* detection ran, the cache write was committed before the mapping began.
C19_PhasesInOrder ==
    ~settings.USE_BROWSER_USE =>
        \A i \in Tasks :
            LET calls == task[i].calls
            IN /\ \A a, b \in 1 .. Len(calls) :
                     a < b => PhaseRank(calls[a]) < PhaseRank(calls[b])
               /\ task[i].pc = "login" => calls = <<>>
               /\ task[i].pc = "detect" =>
                     Range(calls) \subseteq {"login", "url_first"}
               /\ task[i].pc = "fill" => calls[Len(calls)] = "map"
               /\ ("detect" \in Range(calls) /\ "map" \in Range(calls)) =>
                     /\ "cache" \in Range(calls)
                     /\ directories[task[i].directory_id].detected_form_structure
                            # NoStructure
                     /\ directories[task[i].directory_id].last_form_detection
                            # NoTime

\* An attempt on the directory that requires a login ran every phase it has.
C19_Witness ==
    \E i \in Tasks :
        /\ task[i].calls = <<"login", "detect", "cache", "map", "fill">>
        /\ task[i].pc = "done"

\* C20: when the product id or the directory id does not exist,
\* submit_to_directory raises before creating anything: no Submission row
\* (not even PENDING), no change of a Directory counter or cache, no browser
\* session and no operation of the attempt.
C20_NotFoundCreatesNothing ==
    /\ \A i \in Tasks :
          (saas_product_id \notin ProductIds \/ directory_ids[i] \notin DirIds) =>
              /\ task[i].pc \in {"waiting", "done"}
              /\ task[i].sub = 0
              /\ ~task[i].opened
              /\ task[i].session = NoSession
              /\ task[i].calls = <<>>
              /\ task[i].incs = [total |-> 0, successful |-> 0]
              /\ task[i].pc = "done" =>
                    /\ task[i].ret = "None"
                    /\ task[i].exc = "SaaS product or directory not found"
    /\ saas_product_id \notin ProductIds =>
          /\ submissions = <<>>
          /\ directories = DirectoryRows
    /\ \A k \in 1 .. Len(submissions) : submissions[k].directory_id \in DirIds

\* The product does not exist, and the attempt for an existing directory has
\* returned.
C20_Witness ==
    /\ saas_product_id \notin ProductIds
    /\ \E i \in Tasks :
          /\ directory_ids[i] \in DirIds
          /\ task[i].pc = "done"

\* C21: once submit_to_directory has created the Submission row, a failure
\* of a later phase is recorded on the row and the call returns the row; it
\* raises only when no row was created.
C21_NoRaiseAfterRecord ==
    \A i \in Tasks :
        (task[i].pc = "done" /\ task[i].sub # 0) =>
            /\ task[i].ret = "Submission"
            /\ submissions[task[i].sub].status = "FAILED" =>
                  submissions[task[i].sub].response_message # NULL

\* C22: every attempt that returns its Submission FAILED (a failed login,
\* url-first step, detection, mapping or fill, a submission classified as
\* failed, a failure the agent reports) has response_message set to the
\* reason and exactly one new entry in the error_log of its Submission.
C22_FailureIsLogged ==
    \A i \in Tasks :
        (/\ task[i].pc = "done"
         /\ task[i].ret = "Submission"
         /\ submissions[task[i].sub].status = "FAILED") =>
            /\ submissions[task[i].sub].response_message # NULL
            /\ Len(submissions[task[i].sub].error_log) = 1

\* C23: a submit_to_directory call that created a Submission row has left it
\* SUBMITTED or FAILED when it finishes, by return or by raise; the row is
\* never left PENDING.
C23_NeverLeftPending ==
    \A i \in Tasks :
        (task[i].pc = "done" /\ task[i].sub # 0) =>
            submissions[task[i].sub].status \in Terminal

\* A call that created its row finished by raising, and one by returning.
C23_Witness ==
    \E i, j \in Tasks :
        /\ task[i].pc = "done"
        /\ task[i].sub # 0
        /\ task[i].ret = "None"
        /\ task[j].pc = "done"
        /\ task[j].ret = "Submission"

RECURSIVE ActiveUpTo(_)
\* Attempts in progress in the route calls 1 .. r.
ActiveUpTo(r) == IF r = 0 THEN 0 ELSE requests[r].active + ActiveUpTo(r - 1)

\* C24: over all bulk_submit calls and single submissions in progress at the
\* same time, the number of active attempts never exceeds
\* CONCURRENT_SUBMISSIONS.
C24_GlobalCeiling ==
    ActiveUpTo(MaxRequests) <= settings.CONCURRENT_SUBMISSIONS

\* C25: each scripted attempt opens one browser session of its own and runs
\* all its phases on it; no browser session is used by two attempts.
C25_SessionPerAttempt ==
    \A i \in Tasks :
        /\ task[i].opened => task[i].browser # 0
        /\ task[i].used \subseteq {task[i].browser}
        /\ \A j \in Tasks \ {i} :
              /\ task[i].used \cap task[j].used = {}
              /\ (task[i].opened /\ task[j].opened) =>
                    task[i].browser # task[j].browser

\* Two attempts run side by side, each inside its own browser session, and
\* each has run an operation on it.
C25_Witness ==
    \E i, j \in Tasks :
        /\ i # j
        /\ task[i].pc \in {"login", "detect", "fill"}
        /\ task[j].pc \in {"login", "detect", "fill"}
        /\ task[i].used # {}
        /\ task[j].used # {}

\* C27: an attempt against a directory that requires the url-first step,
\* whose initial page offers the URL field and the continue button, runs the
\* step and goes on to form detection (or to the cached structure) and the
\* mapping; it stops after the step only when the field or the button is
\* missing.
C27_UrlFirstLeadsToDetection ==
    \A i \in Tasks :
        LET d == task[i].directory_id
        IN (/\ task[i].pc = "done"
            /\ "url_first" \in Range(task[i].calls)
            /\ InitialPages[d].url_field
            /\ InitialPages[d].continue_button)
           => Range(task[i].calls) \cap {"detect", "map"} # {}

\* C26: whatever the interleaving of attempts against one Directory, also
\* when an attempt read the counters before another attempt committed, the
\* stored total_submissions and successful_submissions never go down from one
\* commit to the next.
C26_CountersNeverDecrease ==
    [][\A d \in DirIds :
          /\ directories'[d].total_submissions >= directories[d].total_submissions
          /\ directories'[d].successful_submissions
                >= directories[d].successful_submissions]_vars

\* C28: in every fill_and_submit_form call that clicks submit, single-step or
\* multi-step, a screenshot is the page operation right before the click and
\* the result carries its path.
C28_ScreenshotBeforeSubmit ==
    form.pc = "done" =>
        \A k \in 1 .. Len(form.ops) :
            form.ops[k] = "submit" =>
                /\ k > 1
                /\ form.ops[k - 1] = "screenshot"
                /\ form.result.screenshot_path # NULL

\* k fill rounds with a next click between them.
RECURSIVE FillRounds(_)
FillRounds(k) ==
    IF k = 0 THEN <<>>
    ELSE IF k = 1 THEN <<"fill">>
    ELSE FillRounds(k - 1) \o <<"next", "fill">>

IsFillOrClick(op) == op # "screenshot"

\* C29: a multi-step form of n >= 1 declared steps gets n fill rounds, a next
\* click after each of the first n - 1 and the submit click after the n-th,
\* in that order; a single-step form gets one fill round and one submit click;
\* a call that stops earlier reports failure and has not clicked submit, in
\* particular when a next button is not found.
C29_RoundsThenSubmit ==
    LET n == IF form.is_multi_step THEN form.step_count ELSE 1
        done == SelectSeq(form.ops, IsFillOrClick)
    IN (form.pc = "done" /\ n >= 1) =>
        /\ \/ done = FillRounds(n) \o <<"submit">>
           \/ /\ ~form.result.success
              /\ "submit" \notin Range(form.ops)
              /\ \E k \in 0 .. n : done = FillRounds(k)
        /\ form.result.message = "Error: Next button not found" =>
              /\ ~form.result.success
              /\ "submit" \notin Range(form.ops)
              /\ \E k \in 1 .. n - 1 : done = FillRounds(k)

\* A form of at least two steps was filled round by round and submitted.
C29_Witness ==
    /\ form.pc = "done"
    /\ form.is_multi_step
    /\ form.step_count >= 2
    /\ "submit" \in Range(form.ops)

\* C30: a Submission record has the same shape whichever mode produced it:
\* after a success status, submitted_at and listing_url are set and both
\* Directory counters went up by one; after a failure response_message and an
\* error_log entry are set and total_submissions went up by one.
C30_SameShapeInBothModes ==
    \A i \in Tasks :
        task[i].ret = "Submission" =>
            LET row == submissions[task[i].sub]
            IN /\ row.status = "SUBMITTED" =>
                     /\ row.submitted_at # NoTime
                     /\ row.listing_url # NULL
                     /\ task[i].incs = [total |-> 1, successful |-> 1]
               /\ row.status = "FAILED" =>
                     /\ row.response_message # NULL
                     /\ row.error_log # <<>>
                     /\ task[i].incs = [total |-> 1, successful |-> 0]

\* The response does not parse: json.loads rejects the extracted text, or the
\* parsed object cannot be validated.
Malformed(response) ==
    LET data == Loads(ObjectBoundaries(FromCodeBlock(response)))
    IN data.kind = "JSONDecodeError" \/ data.fields_kind = "null"

\* C31: for a malformed AI response the form detector lets no exception out
\* and returns an empty field list with a null submit_button_selector, and
\* the attempt goes on to the field mapping, which then maps nothing.
C31_ParseFailureDegrades ==
    Malformed(parser.response) =>
        /\ parser.pc # "raised"
        /\ parser.pc \in {"parsed", "mapped"} =>
              parser.form_structure
                = [fields |-> <<>>, submit_button_selector |-> NULL]
        /\ parser.pc = "mapped" => DOMAIN parser.field_mapping = {}

\* A response with a code fence that does not parse was degraded and handed
\* to the mapper.
C31_Witness ==
    /\ parser.pc = "mapped"
    /\ Malformed(parser.response)
    /\ "fence_json" \in Range(parser.response)
    /\ "fields_ok" \in Range(parser.response)

\* The messages of a call that ended because the page did not load or a
\* button was missing.
ClickFailures ==
    {"Timeout submitting to form", "Error: Next button not found",
     "Error: Submit button not found"}

\* C32: a field that cannot be located or filled is skipped: whatever subset
\* of the mapped fields fails in a round, every field is still attempted in
\* the order of the mapping, the call never ends because of a field, and the
\* submit click follows unless the page load or a button fails.
C32_FieldFailuresAreSkipped ==
    /\ form.pc \in {"next", "shoot", "submit", "check", "done"}
          /\ "fill" \in Range(form.ops)
       => form.attempted = <<"#name", "#url", "#email">>
    /\ form.pc = "done" =>
          /\ form.result.message # "Error: field not found"
          /\ ("fill" \in Range(form.ops) /\ "submit" \notin Range(form.ops))
                => form.result.message \in ClickFailures

\* A single-step call in which fields failed to fill still clicked submit.
C32_Witness ==
    /\ form.pc = "done"
    /\ ~form.is_multi_step
    /\ form.failed # {}
    /\ form.attempted = FormSelectors
    /\ form.ops = <<"fill", "screenshot", "submit">>

\* C34: fill_and_submit_form reports success only after it clicked the submit
\* affordance, for every is_multi_step and step_count, a step_count below 1
\* included.
C34_SuccessNeedsSubmitClick ==
    (form.pc = "done" /\ form.result.success) => "submit" \in Range(form.ops)

\* C35: when the Directory requires a login, the attempt goes on to the
\* url-first, detection, mapping and fill/submit steps only after a login was
\* performed with the stored credentials; with login_url, username or
\* password missing it does not go on as if logged in.
C35_ProceedsOnlyLoggedIn ==
    (login.requires_login /\ login.pc = "proceeded") => login.performed

\* C33: in every reachable state every Directory has
\* successful_submissions <= total_submissions, also when successful and
\* failed attempts against it read the counters at different times.
C33_SuccessfulAtMostTotal ==
    \A d \in DirIds :
        directories[d].successful_submissions <= directories[d].total_submissions

\* The attempts that took a step.
Acting == {i \in Tasks : task'[i] # task[i]}

\* C36: an attempt changes only its own Submission row and the Directory it
\* submits to: every other Submission row, the cache and the counters of
\* every other Directory and the product of the call stay as they are, also
\* while sibling attempts of the same bulk run are in progress.
C36_AttemptTouchesOwnRowsOnly ==
    [][/\ saas_product_id' = saas_product_id
       /\ Len(submissions') >= Len(submissions)
       /\ \A s \in 1 .. Len(submissions') :
             (s > Len(submissions) \/ submissions'[s] # submissions[s]) =>
                 \E i \in Acting : task'[i].sub = s
       /\ \A d \in DirIds :
             directories'[d] # directories[d] =>
                 \E i \in Acting : task[i].directory_id = d]_vars

\* Two attempts of one run are in progress with their rows created, one has
\* cached a structure on its Directory and the Directory of the other has
\* none.
C36_Witness ==
    \E i, j \in Tasks :
        /\ i # j
        /\ task[i].pc = "fill"
        /\ task[j].pc \in {"login", "detect", "fill"}
        /\ task[j].sub # 0
        /\ directories[task[i].directory_id].detected_form_structure.kind = "dict"
        /\ directories[task[j].directory_id].detected_form_structure.kind = "None"

\* The call has returned with every task finished, every permit back, and
\* one Submission row per requested directory that exists, each made by its
\* own task.
ReturnedClean ==
    /\ call = "returned"
    /\ \A i \in Tasks : task[i].pc = "done"
    /\ semaphore = settings.CONCURRENT_SUBMISSIONS
    /\ \A i \in Tasks :
          IF saas_product_id \in ProductIds /\ directory_ids[i] \in DirIds
          THEN /\ task[i].sub \in 1 .. Len(submissions)
               /\ submissions[task[i].sub].directory_id = directory_ids[i]
          ELSE task[i].sub = 0
    /\ \A i, j \in Tasks : (i # j /\ task[i].sub # 0) => task[i].sub # task[j].sub
    /\ Len(submissions) = Cardinality({i \in Tasks : task[i].sub # 0})

\* C37: with a ceiling of at least 1 and attempts that terminate, bulk_submit
\* terminates; each requested directory id has been attempted exactly once,
\* every permit taken has been released, also by attempts that raised, and
\* the call returns only after all attempts have finished.
C37_BulkTerminates ==
    /\ <>(call = "returned")
    /\ [](call = "returned" => ReturnedClean)

\* A call over two directory ids under a ceiling of 1 has returned, and one
\* of its attempts had raised.
C37_Witness ==
    /\ call = "returned"
    /\ Len(directory_ids) = 2
    /\ settings.CONCURRENT_SUBMISSIONS = 1
    /\ \E i \in Tasks : task[i].ret = "None" /\ task[i].sub # 0
    /\ \E i \in Tasks : task[i].ret = "Submission"

====
